---- MODULE Spec2Model ----
(***************************************************************************)
(* A model of the capsule8 sensor core:                                    *)
(*   - event stamping (pkg/sensor/sensor.go: nextSequenceNumber, NewEvent, *)
(*     NewEventFromContainer, NewEventFromSample),                         *)
(*   - the trace event decoder registry (pkg/sys/perf: decoderMap,         *)
(*     traceEventDecoderMap),                                              *)
(*   - subscription setup, teardown and dispatch (pkg/sensor/sensor.go:    *)
(*     createPerfEventStream, dispatchSample).                             *)
(* Each subsystem has its own specification; the variables of the other    *)
(* subsystems stay at their initial values.                                *)
(***************************************************************************)
EXTENDS Integers, Sequences, FiniteSets, TLC

(***************************************************************************)
(* Bounds of the model.                                                    *)
(***************************************************************************)
\* Number of NewEvent* calls started in one behaviour.
MaxEvents == 3

\* Number of AddDecoder, RemoveDecoder and in-place calls started.
MaxRegOps == 3

\* Number of getDecoder calls started.
MaxReads == 2

\* Number of samples the monitor hands to dispatchSample.
MaxSamples == 2

\* Number of samples handed to DecodeSample.
MaxDecodes == 2

\* Number of bytes a sample's raw data can lack at its end.
MaxCut == 1

\* Number of values sent on control channels.
MaxCtrlValues == 1

\* config.Sensor.ChannelBufferLength: the capacity of a data channel.
ChannelBufferLength == 2

\* Number of random bytes of the sensor id (sensor.go:42); the id is their
\* hex encoding, two characters per byte.
sensorIDLengthBytes == 32

VARIABLES
    \* ---- event stamping -------------------------------------------------
    ID,                 \* Sensor.ID
    bootMonotimeNanos,  \* Sensor.bootMonotimeNanos
    sequenceNumber,     \* Sensor.sequenceNumber
    metricsEvents,      \* Sensor.Metrics.Events
    evPc,               \* position of each goroutine inside NewEvent*
    evLocal,            \* locals of each goroutine's NewEvent* call
    emitted,            \* history: the events returned, in order of return
    evCalls,            \* history: number of NewEvent* calls started
    overlapped,         \* history: TRUE once two calls ran at the same time
    \* ---- decoder registry ------------------------------------------------
    dmHeap,             \* the decoderMap objects allocated so far, by pointer
    active,             \* traceEventDecoderMap.active: a pointer, 0 for nil
    mutex,              \* traceEventDecoderMap.Mutex: its holder, or "none"
    wrPc,               \* position of each writer goroutine
    wrLocal,            \* locals of each writer's call
    rdPc,               \* position of each reader goroutine
    rdLocal,            \* locals of each reader's getDecoder call
    publishedAs,        \* history: pointer -> the map's value when last stored
    regOps,             \* history: number of writer calls started
    regReads,           \* history: number of getDecoder calls started
    removed,            \* history: names whose RemoveDecoder returned, not added since
    serial,             \* history: the map the writers' calls give applied one at a time
    rdAfterRemove,      \* history: per reader, the names removed when its call started
    \* ---- subscriptions and dispatch --------------------------------------
    subPc,              \* each subscription: where its createPerfEventStream is
    subIds,             \* each subscription: the event ids of its eventMap
    subFilter,          \* each subscription: subscription.filter
    toEnable,           \* each subscription: event ids still to be enabled
    eventMap,           \* Sensor.eventMap: the published subscription map
    monitor,            \* Sensor.monitor: events registered, enabled, unregistered
    ctrlClosed,         \* each subscription: its control channel was closed
    tdPc,               \* each subscription: where its teardown goroutine is
    chanBuf,            \* each subscription: the events buffered in its data channel
    chanClosed,         \* each subscription: its data channel was closed
    received,           \* history: the events each consumer received, in order
    dPc,                \* where the monitor's goroutine is inside dispatchSample
    dSample,            \* the sample being dispatched
    dSnap,              \* the subscription map dispatchSample loaded
    dTodo,              \* the entries of that map forEach has not visited yet
    dCur,               \* the subscription dispatchSample is sending to
    samples,            \* history: number of samples the monitor delivered
    ctrlValues,         \* history: values the teardown goroutines got from ctrl channels
    subFailed,          \* each subscription: its events whose schema did not load
    metricsSubscriptions, \* Sensor.Metrics.Subscriptions
    dataSet,            \* each subscription: the data field of its entries is assigned
    monitorPtr,         \* the pointer Sensor.monitor: "set", or "nil" after Stop
    \* ---- sample decoding ------------------------------------------------
    decPc,              \* where the monitor is with the sample it read
    decIn,              \* the sample handed to DecodeSample and what it was laid out from
    decOut,             \* what DecodeSample returned
    decCalls            \* history: number of DecodeSample calls started

evVars == <<ID, bootMonotimeNanos, sequenceNumber, metricsEvents, evPc,
            evLocal, emitted, evCalls, overlapped>>

regVars == <<dmHeap, active, mutex, wrPc, wrLocal, rdPc, rdLocal, publishedAs,
             regOps, regReads, removed, serial, rdAfterRemove>>

dispVars == <<subPc, subIds, subFilter, toEnable, eventMap, monitor, ctrlClosed,
              tdPc, chanBuf, chanClosed, received, dPc, dSample, dSnap, dTodo,
              dCur, samples, ctrlValues, subFailed, metricsSubscriptions,
              dataSet, monitorPtr>>

decVars == <<decPc, decIn, decOut, decCalls>>

vars == <<evVars, regVars, dispVars, decVars>>

\* What the actions of one subsystem leave alone.
notEvVars == <<regVars, dispVars, decVars>>
notRegVars == <<evVars, dispVars, decVars>>
notDispVars == <<evVars, regVars, decVars>>
notDecVars == <<evVars, regVars, dispVars>>

(***************************************************************************)
(* Event stamping                                                          *)
(***************************************************************************)
\* The goroutines that create events: the monitor's dispatcher goroutine
\* (through NewEventFromSample) and one other event source (container
\* events, tickers, chargen: through NewEvent and NewEventFromContainer).
Callers == {"dispatcher", "source"}

KindsOf(t) == IF t = "dispatcher" THEN {"sample"} ELSE {"plain", "container"}

\* Values of CLOCK_MONOTONIC_RAW read by NewSensor and currentMonotimeNanos,
\* and values of sample.Time.
BootValues == {1000}
ClockValues == {1500, 1700}
SampleTimes == {900, 1500}
ContainerIDs == {"c1"}

\* hex.EncodeToString of the random bytes: 2 * sensorIDLengthBytes characters.
SensorIDs == {"aaaaaaaaaaaaaaaaaaaaaaaaaaaaaaaaaaaaaaaaaaaaaaaaaaaaaaaaaaaaaaaa"}

\* The bytes of a sensor id: one byte, 97, for each of its characters.
StringBytes(id) == [i \in 1..(2 * sensorIDLengthBytes) |-> 97]

\* binary.LittleEndian encoding of a uint64; the model's values are below
\* 2^24, so the bytes above the third are zero.
LittleEndianU64(n) ==
    [i \in 1..8 |-> IF i <= 3 THEN (n \div (256 ^ (i - 1))) % 256 ELSE 0]

\* binary.LittleEndian encoding of an int64 (two's complement).
LittleEndianI64(n) ==
    IF n >= 0 THEN LittleEndianU64(n)
    ELSE [i \in 1..8 |-> 255 - LittleEndianU64((-n) - 1)[i]]

\* binary.Write(buf, binary.LittleEndian, data): data must be a fixed-size
\* value. A Go string is not: Write returns an error and appends nothing,
\* and NewEvent ignores the error.
BinaryWrite(buf, data) ==
    CASE data.type = "string" -> buf
      [] data.type = "uint64" -> buf \o LittleEndianU64(data.v)
      [] data.type = "int64"  -> buf \o LittleEndianI64(data.v)

\* hex.EncodeToString(sha256.Sum256(b)), taken as an injective function of b.
Sha256Hex(b) == <<"sha256", b>>

\* The bytes NewEvent hashes (sensor.go:268-276).
EventIDOf(id, sequence, monotime) ==
    LET b1 == BinaryWrite(<< >>, [type |-> "string", v |-> id])
        b2 == BinaryWrite(b1, [type |-> "uint64", v |-> sequence])
        b3 == BinaryWrite(b2, [type |-> "int64", v |-> monotime])
    IN  Sha256Hex(b3)

NoLocal == [kind |-> "none", monotime |-> 0, tmp |-> 0, seq |-> 0,
            sampleTime |-> 0, containerID |-> ""]

EvInit ==
    /\ ID \in SensorIDs
    /\ bootMonotimeNanos \in BootValues
    /\ sequenceNumber = 0
    /\ metricsEvents = 0
    /\ evPc = [t \in Callers |-> "idle"]
    /\ evLocal = [t \in Callers |-> NoLocal]
    /\ emitted = << >>
    /\ evCalls = 0
    /\ overlapped = FALSE

\* A goroutine calls NewEvent, NewEventFromContainer or NewEventFromSample;
\* NewEvent starts with currentMonotimeNanos (sensor.go:248-253, 265).
NewEventCall(t) ==
    /\ evPc[t] = "idle"
    /\ evCalls < MaxEvents
    /\ \E kind \in KindsOf(t), now \in ClockValues,
          st \in SampleTimes, c \in ContainerIDs :
          evLocal' = [evLocal EXCEPT ![t] =
                        [kind |-> kind,
                         monotime |-> now - bootMonotimeNanos,
                         tmp |-> 0, seq |-> 0,
                         sampleTime |-> IF kind = "sample" THEN st ELSE 0,
                         containerID |-> IF kind = "container" THEN c ELSE ""]]
    /\ evPc' = [evPc EXCEPT ![t] = "seqLoad"]
    /\ evCalls' = evCalls + 1
    /\ overlapped' = (overlapped \/ \E u \in Callers \ {t} : evPc[u] # "idle")
    /\ UNCHANGED <<ID, bootMonotimeNanos, sequenceNumber, metricsEvents, emitted>>
    /\ UNCHANGED notEvVars

\* s.sequenceNumber++ is a plain load, add and store (sensor.go:258).
SeqLoad(t) ==
    /\ evPc[t] = "seqLoad"
    /\ evLocal' = [evLocal EXCEPT ![t].tmp = sequenceNumber]
    /\ evPc' = [evPc EXCEPT ![t] = "seqStore"]
    /\ UNCHANGED <<ID, bootMonotimeNanos, sequenceNumber, metricsEvents,
                   emitted, evCalls, overlapped>>
    /\ UNCHANGED notEvVars

\* A counter that skips a value at each increment.
IncrementedByTwo(n) == n + 2

\* The value the increment stores.
Incremented(n) == n + 1

SeqStore(t) ==
    /\ evPc[t] = "seqStore"
    /\ sequenceNumber' = Incremented(evLocal[t].tmp)
    /\ evPc' = [evPc EXCEPT ![t] = "seqReturn"]
    /\ UNCHANGED <<ID, bootMonotimeNanos, metricsEvents, evLocal, emitted,
                   evCalls, overlapped>>
    /\ UNCHANGED notEvVars

\* return s.sequenceNumber (sensor.go:259): the field is read again, unless
\* the compiler kept the stored value in a register.
SeqReturn(t) ==
    /\ evPc[t] = "seqReturn"
    /\ \E r \in {sequenceNumber, Incremented(evLocal[t].tmp)} :
          evLocal' = [evLocal EXCEPT ![t].seq = r]
    /\ evPc' = [evPc EXCEPT ![t] = "build"]
    /\ UNCHANGED <<ID, bootMonotimeNanos, sequenceNumber, metricsEvents,
                   emitted, evCalls, overlapped>>
    /\ UNCHANGED notEvVars

\* The monotime stamped on the returned event: NewEventFromSample replaces
\* the one NewEvent stamped (sensor.go:302).
StampedMonotime(l) ==
    IF l.kind = "sample" THEN l.sampleTime - bootMonotimeNanos ELSE l.monotime

\* The rest of NewEvent (sensor.go:268-285) and what NewEventFromContainer
\* (sensor.go:291-293) or NewEventFromSample (sensor.go:301-302) add to it.
NewEventReturn(t) ==
    /\ evPc[t] = "build"
    /\ LET l == evLocal[t]
           e == [Id |-> EventIDOf(ID, l.seq, l.monotime),
                 SensorId |-> ID,
                 SensorMonotimeNanos |-> StampedMonotime(l),
                 SensorSequenceNumber |-> l.seq,
                 ContainerId |-> l.containerID,
                 kind |-> l.kind,
                 caller |-> t]
       IN  emitted' = Append(emitted, e)
    /\ metricsEvents' = metricsEvents + 1
    /\ evPc' = [evPc EXCEPT ![t] = "idle"]
    /\ evLocal' = [evLocal EXCEPT ![t] = NoLocal]
    /\ UNCHANGED <<ID, bootMonotimeNanos, sequenceNumber, evCalls, overlapped>>
    /\ UNCHANGED notEvVars

EvNext ==
    \E t \in Callers :
        \/ NewEventCall(t)
        \/ SeqLoad(t)
        \/ SeqStore(t)
        \/ SeqReturn(t)
        \/ NewEventReturn(t)

(***************************************************************************)
(* Decoder registry                                                        *)
(***************************************************************************)
\* Maps (Go map values) are functions; these build the updated function.
EmptyMap == [x \in {} |-> 0]
MapPut(m, k, v) == [x \in (DOMAIN m) \cup {k} |-> IF x = k THEN v ELSE m[x]]
MapDel(m, k) == [x \in (DOMAIN m) \ {k} |-> m[x]]

\* Event names handed to the registry; "missing" has no format file.
EventNames == {"A", "B", "missing"}
DecoderFns == {"fn1", "fn2"}

\* getTraceEventFormat: the id and the fields of the event's format file,
\* a fixed function of the name; distinct events have distinct ids.
FormatID(name) == IF name = "A" THEN 1 ELSE 2
FormatFields(name) == IF name = "A" THEN {"common_pid", "a"} ELSE {"common_pid", "b"}
FormatError(name) == name = "missing"

EventTypes == {FormatID(n) : n \in {m \in EventNames : ~FormatError(m)}}

\* newTraceEventDecoder (part_000:39-51), when the format loads.
NewTraceEventDecoderOf(name, fn) ==
    [fields |-> FormatFields(name), decoderfn |-> fn]

\* newDecoderMap (part_000:134-139).
NewDecoderMap == [decoders |-> EmptyMap, names |-> EmptyMap]

\* decoderMap.add (part_000:141-144).
DecoderMapAdd(dm, name, id, decoder) ==
    [decoders |-> MapPut(dm.decoders, id, decoder),
     names |-> MapPut(dm.names, name, id)]

\* A decoderMap after delete(dm.names, name) and delete(dm.decoders, id)
\* (part_000:221-225).
DecoderMapRemove(dm, name) ==
    IF name \in DOMAIN dm.names
    THEN [decoders |-> MapDel(dm.decoders, dm.names[name]),
          names |-> MapDel(dm.names, name)]
    ELSE dm

\* The nil *traceEventDecoder.
NilDecoder == [fields |-> {}, decoderfn |-> "nil"]

Writers == {"w1", "w2"}
Readers == {"r1"}

NoWrLocal == [op |-> "none", name |-> "", id |-> 0, decoder |-> NilDecoder, ndm |-> 0]
NoRdLocal == [eventType |-> 0, dm |-> 0, result |-> NilDecoder]

RegInit ==
    /\ dmHeap = << >>
    /\ active = 0
    /\ mutex = "none"
    /\ wrPc = [w \in Writers |-> "idle"]
    /\ wrLocal = [w \in Writers |-> NoWrLocal]
    /\ rdPc = [r \in Readers |-> "idle"]
    /\ rdLocal = [r \in Readers |-> NoRdLocal]
    /\ publishedAs = EmptyMap
    /\ regOps = 0
    /\ regReads = 0
    /\ removed = {}
    /\ serial = NewDecoderMap
    /\ rdAfterRemove = [r \in Readers |-> {}]

\* getDecoderMap (part_000:152-158): one atomic load.
GetDecoderMap == active

\* m.active.Store(p).
ActiveStore(p) ==
    /\ active' = p
    /\ publishedAs' = MapPut(publishedAs, p, dmHeap[p])

\* AddDecoder up to m.Lock() (part_000:188-191): the decoder is built
\* first; when the format cannot be loaded the call returns the error.
AddDecoderCall(w) ==
    /\ wrPc[w] = "idle"
    /\ regOps < MaxRegOps
    /\ regOps' = regOps + 1
    /\ \E name \in EventNames, fn \in DecoderFns :
          IF FormatError(name)
          THEN UNCHANGED <<wrPc, wrLocal>>
          ELSE /\ wrPc' = [wrPc EXCEPT ![w] = "addLock"]
               /\ wrLocal' = [wrLocal EXCEPT ![w] =
                                [op |-> "add", name |-> name, id |-> FormatID(name),
                                 decoder |-> NewTraceEventDecoderOf(name, fn),
                                 ndm |-> 0]]
    /\ UNCHANGED <<dmHeap, active, mutex, rdPc, rdLocal, publishedAs, regReads,
                   removed, serial, rdAfterRemove>>
    /\ UNCHANGED notRegVars

\* A lock that does not wait for its holder to release it.
WriterLockNotExclusive(w) ==
    /\ wrPc[w] \in {"addLock", "removeLock"}
    /\ mutex' = w
    /\ wrPc' = [wrPc EXCEPT ![w] = IF wrPc[w] = "addLock" THEN "addBuild"
                                                          ELSE "removeBuild"]
    /\ UNCHANGED <<dmHeap, active, wrLocal, rdPc, rdLocal, publishedAs,
                   regOps, regReads, removed, serial, rdAfterRemove>>
    /\ UNCHANGED notRegVars

\* m.Lock() (part_000:193, 239).
WriterLock(w) ==
    /\ wrPc[w] \in {"addLock", "removeLock"}
    /\ mutex = "none"
    /\ mutex' = w
    /\ wrPc' = [wrPc EXCEPT ![w] = IF wrPc[w] = "addLock" THEN "addBuild"
                                                          ELSE "removeBuild"]
    /\ UNCHANGED <<dmHeap, active, wrLocal, rdPc, rdLocal, publishedAs,
                   regOps, regReads,
                   removed, serial, rdAfterRemove>>
    /\ UNCHANGED notRegVars

\* The map AddDecoder builds (part_000:196-206): a copy of the active map,
\* or a new one, with the decoder added.
AddDecoderCopy(odm, name, id, decoder) ==
    DecoderMapAdd(IF odm = 0 THEN NewDecoderMap
                  ELSE [decoders |-> dmHeap[odm].decoders,
                        names |-> dmHeap[odm].names],
                  name, id, decoder)

\* AddDecoder without the copy: the decoder is added to the active map.
AddDecoderBuildNoCopy(w) ==
    /\ wrPc[w] = "addBuild"
    /\ LET l == wrLocal[w]
           odm == GetDecoderMap
       IN  IF odm = 0
           THEN /\ dmHeap' = Append(dmHeap, DecoderMapAdd(NewDecoderMap, l.name,
                                                          l.id, l.decoder))
                /\ wrLocal' = [wrLocal EXCEPT ![w].ndm = Len(dmHeap) + 1]
           ELSE /\ dmHeap' = [dmHeap EXCEPT ![odm] =
                                 DecoderMapAdd(dmHeap[odm], l.name, l.id, l.decoder)]
                /\ wrLocal' = [wrLocal EXCEPT ![w].ndm = odm]
    /\ wrPc' = [wrPc EXCEPT ![w] = "store"]
    /\ UNCHANGED <<active, mutex, rdPc, rdLocal, publishedAs, regOps, regReads,
                   removed, serial, rdAfterRemove>>
    /\ UNCHANGED notRegVars

AddDecoderBuild(w) ==
    /\ wrPc[w] = "addBuild"
    /\ LET l == wrLocal[w]
           odm == GetDecoderMap
       IN  /\ dmHeap' = Append(dmHeap, AddDecoderCopy(odm, l.name, l.id, l.decoder))
           /\ wrLocal' = [wrLocal EXCEPT ![w].ndm = Len(dmHeap) + 1]
    /\ wrPc' = [wrPc EXCEPT ![w] = "store"]
    /\ UNCHANGED <<active, mutex, rdPc, rdLocal, publishedAs, regOps, regReads,
                   removed, serial, rdAfterRemove>>
    /\ UNCHANGED notRegVars

\* m.active.Store(ndm) (part_000:208, 256).
WriterStore(w) ==
    /\ wrPc[w] = "store"
    /\ ActiveStore(wrLocal[w].ndm)
    /\ wrPc' = [wrPc EXCEPT ![w] = "unlock"]
    /\ LET l == wrLocal[w]
       IN  IF l.op = "add"
           THEN /\ serial' = DecoderMapAdd(serial, l.name, l.id, l.decoder)
                /\ removed' = removed \ {l.name}
           ELSE /\ serial' = DecoderMapRemove(serial, l.name)
                /\ UNCHANGED removed
    /\ UNCHANGED <<dmHeap, mutex, wrLocal, rdPc, rdLocal, regOps, regReads,
                   rdAfterRemove>>
    /\ UNCHANGED notRegVars

\* The deferred m.Unlock() and the return (part_000:194, 240).
WriterUnlock(w) ==
    /\ wrPc[w] = "unlock"
    /\ mutex' = "none"
    /\ wrPc' = [wrPc EXCEPT ![w] = "idle"]
    /\ wrLocal' = [wrLocal EXCEPT ![w] = NoWrLocal]
    /\ removed' = IF wrLocal[w].op = "remove" THEN removed \cup {wrLocal[w].name}
                                              ELSE removed
    /\ UNCHANGED <<dmHeap, active, rdPc, rdLocal, publishedAs, regOps, regReads,
                   serial, rdAfterRemove>>
    /\ UNCHANGED notRegVars

\* RemoveDecoder up to m.Lock() (part_000:232-238): the name is looked up
\* in the map loaded before the lock is taken.
RemoveDecoderCall(w) ==
    /\ wrPc[w] = "idle"
    /\ regOps < MaxRegOps
    /\ regOps' = regOps + 1
    /\ \E name \in EventNames :
          LET dm == GetDecoderMap IN
          IF dm = 0 \/ name \notin DOMAIN dmHeap[dm].names
          THEN /\ removed' = removed \cup {name}
               /\ UNCHANGED <<wrPc, wrLocal>>
          ELSE /\ wrPc' = [wrPc EXCEPT ![w] = "removeLock"]
               /\ wrLocal' = [wrLocal EXCEPT ![w] =
                                [op |-> "remove", name |-> name,
                                 id |-> dmHeap[dm].names[name],
                                 decoder |-> NilDecoder, ndm |-> 0]]
               /\ UNCHANGED removed
    /\ UNCHANGED <<dmHeap, active, mutex, rdPc, rdLocal, publishedAs, regReads,
                   serial, rdAfterRemove>>
    /\ UNCHANGED notRegVars

\* RemoveDecoder that drops the name and keeps the decoder.
RemoveDecoderCopyKeepsDecoder(odm, name, id) ==
    [decoders |-> dmHeap[odm].decoders,
     names |-> [k \in (DOMAIN dmHeap[odm].names) \ {name} |->
                      dmHeap[odm].names[k]]]

\* The map RemoveDecoder builds (part_000:244-254).
RemoveDecoderCopy(odm, name, id) ==
    [decoders |-> [k \in (DOMAIN dmHeap[odm].decoders) \ {id} |->
                      dmHeap[odm].decoders[k]],
     names |-> [k \in (DOMAIN dmHeap[odm].names) \ {name} |->
                      dmHeap[odm].names[k]]]

\* RemoveDecoder without the copy: the entries are deleted from the active
\* map.
RemoveDecoderBuildNoCopy(w) ==
    /\ wrPc[w] = "removeBuild"
    /\ LET l == wrLocal[w]
           odm == GetDecoderMap
       IN  IF odm = 0
           THEN /\ wrPc' = [wrPc EXCEPT ![w] = "unlock"]
                /\ UNCHANGED <<dmHeap, wrLocal>>
           ELSE /\ dmHeap' = [dmHeap EXCEPT ![odm] =
                                 [decoders |-> MapDel(dmHeap[odm].decoders, l.id),
                                  names |-> MapDel(dmHeap[odm].names, l.name)]]
                /\ wrLocal' = [wrLocal EXCEPT ![w].ndm = odm]
                /\ wrPc' = [wrPc EXCEPT ![w] = "store"]
    /\ UNCHANGED <<active, mutex, rdPc, rdLocal, publishedAs, regOps, regReads,
                   removed, serial, rdAfterRemove>>
    /\ UNCHANGED notRegVars

\* RemoveDecoder that stores a plain copy of the active map.
RemoveDecoderBuildKeepsEntry(w) ==
    /\ wrPc[w] = "removeBuild"
    /\ LET odm == GetDecoderMap
       IN  IF odm = 0
           THEN /\ wrPc' = [wrPc EXCEPT ![w] = "unlock"]
                /\ UNCHANGED <<dmHeap, wrLocal>>
           ELSE /\ dmHeap' = Append(dmHeap, dmHeap[odm])
                /\ wrLocal' = [wrLocal EXCEPT ![w].ndm = Len(dmHeap) + 1]
                /\ wrPc' = [wrPc EXCEPT ![w] = "store"]
    /\ UNCHANGED <<active, mutex, rdPc, rdLocal, publishedAs, regOps, regReads,
                   removed, serial, rdAfterRemove>>
    /\ UNCHANGED notRegVars

\* Under the lock (part_000:242-257); with no active map nothing is stored.
RemoveDecoderBuild(w) ==
    /\ wrPc[w] = "removeBuild"
    /\ LET l == wrLocal[w]
           odm == GetDecoderMap
       IN  IF odm = 0
           THEN /\ wrPc' = [wrPc EXCEPT ![w] = "unlock"]
                /\ UNCHANGED <<dmHeap, wrLocal>>
           ELSE /\ dmHeap' = Append(dmHeap, RemoveDecoderCopy(odm, l.name, l.id))
                /\ wrLocal' = [wrLocal EXCEPT ![w].ndm = Len(dmHeap) + 1]
                /\ wrPc' = [wrPc EXCEPT ![w] = "store"]
    /\ UNCHANGED <<active, mutex, rdPc, rdLocal, publishedAs, regOps, regReads,
                   removed, serial, rdAfterRemove>>
    /\ UNCHANGED notRegVars

\* A getDecoder that loads the map only while no writer holds the mutex.
GetDecoderLoadUnderLock(r) ==
    /\ rdPc[r] = "idle"
    /\ mutex = "none"
    /\ regReads < MaxReads
    /\ regReads' = regReads + 1
    /\ \E eventType \in EventTypes :
          rdLocal' = [rdLocal EXCEPT ![r] =
                        [eventType |-> eventType, dm |-> GetDecoderMap,
                         result |-> NilDecoder]]
    /\ rdPc' = [rdPc EXCEPT ![r] = "lookup"]
    /\ rdAfterRemove' = [rdAfterRemove EXCEPT ![r] = removed]
    /\ UNCHANGED <<dmHeap, active, mutex, wrPc, wrLocal, publishedAs, regOps,
                   removed, serial>>
    /\ UNCHANGED notRegVars

\* getDecoder, the load (part_000:262): m.getDecoderMap().
GetDecoderLoad(r) ==
    /\ rdPc[r] = "idle"
    /\ regReads < MaxReads
    /\ regReads' = regReads + 1
    /\ \E eventType \in EventTypes :
          rdLocal' = [rdLocal EXCEPT ![r] =
                        [eventType |-> eventType, dm |-> GetDecoderMap,
                         result |-> NilDecoder]]
    /\ rdPc' = [rdPc EXCEPT ![r] = "lookup"]
    /\ rdAfterRemove' = [rdAfterRemove EXCEPT ![r] = removed]
    /\ UNCHANGED <<dmHeap, active, mutex, wrPc, wrLocal, publishedAs, regOps,
                   removed, serial>>
    /\ UNCHANGED notRegVars

\* getDecoder, the lookup (part_000:263-266): nil when there is no map or
\* no decoder under the id.
DecoderLookup(dm, eventType) ==
    IF dm = 0 THEN NilDecoder
    ELSE IF eventType \in DOMAIN dmHeap[dm].decoders
         THEN dmHeap[dm].decoders[eventType]
         ELSE NilDecoder

GetDecoderLookup(r) ==
    /\ rdPc[r] = "lookup"
    /\ rdLocal' = [rdLocal EXCEPT ![r].result =
                     DecoderLookup(rdLocal[r].dm, rdLocal[r].eventType)]
    /\ rdPc' = [rdPc EXCEPT ![r] = "done"]
    /\ UNCHANGED <<dmHeap, active, mutex, wrPc, wrLocal, publishedAs, regOps,
                   regReads,
                   removed, serial, rdAfterRemove>>
    /\ UNCHANGED notRegVars

\* The caller is done with the decoder.
GetDecoderReturn(r) ==
    /\ rdPc[r] = "done"
    /\ rdPc' = [rdPc EXCEPT ![r] = "idle"]
    /\ rdLocal' = [rdLocal EXCEPT ![r] = NoRdLocal]
    /\ rdAfterRemove' = [rdAfterRemove EXCEPT ![r] = {}]
    /\ UNCHANGED <<dmHeap, active, mutex, wrPc, wrLocal, publishedAs, regOps,
                   regReads, removed, serial>>
    /\ UNCHANGED notRegVars

\* The in-place calls assume the caller's protection: no other call on the
\* registry is running.
Quiescent ==
    /\ \A w \in Writers : wrPc[w] = "idle"
    /\ \A r \in Readers : rdPc[r] = "idle"

\* addDecoderInPlace (part_000:168-182).
AddDecoderInPlace ==
    /\ Quiescent
    /\ regOps < MaxRegOps
    /\ regOps' = regOps + 1
    /\ \E name \in EventNames, fn \in DecoderFns :
          IF FormatError(name)
          THEN UNCHANGED <<dmHeap, active, publishedAs, removed, serial>>
          ELSE LET decoder == NewTraceEventDecoderOf(name, fn)
                   id == FormatID(name)
                   dm == IF GetDecoderMap = 0 THEN Len(dmHeap) + 1 ELSE GetDecoderMap
                   heap1 == IF GetDecoderMap = 0 THEN Append(dmHeap, NewDecoderMap)
                            ELSE dmHeap
               IN  /\ dmHeap' = [heap1 EXCEPT ![dm] =
                                    DecoderMapAdd(heap1[dm], name, id, decoder)]
                   /\ active' = dm
                   /\ publishedAs' = IF GetDecoderMap = 0
                                     THEN MapPut(publishedAs, dm, NewDecoderMap)
                                     ELSE publishedAs
                   /\ serial' = DecoderMapAdd(serial, name, id, decoder)
                   /\ removed' = removed \ {name}
    /\ UNCHANGED <<mutex, wrPc, wrLocal, rdPc, rdLocal, regReads, rdAfterRemove>>
    /\ UNCHANGED notRegVars

\* removeDecoderInPlace (part_000:215-226).
RemoveDecoderInPlace ==
    /\ Quiescent
    /\ regOps < MaxRegOps
    /\ regOps' = regOps + 1
    /\ \E name \in EventNames :
          LET dm == GetDecoderMap IN
          IF dm = 0 \/ name \notin DOMAIN dmHeap[dm].names
          THEN /\ removed' = removed \cup {name}
               /\ UNCHANGED <<dmHeap, serial>>
          ELSE /\ dmHeap' = [dmHeap EXCEPT ![dm] =
                               [decoders |-> MapDel(dmHeap[dm].decoders,
                                                    dmHeap[dm].names[name]),
                                names |-> MapDel(dmHeap[dm].names, name)]]
               /\ serial' = DecoderMapRemove(serial, name)
               /\ removed' = removed \cup {name}
    /\ UNCHANGED <<active, mutex, wrPc, wrLocal, rdPc, rdLocal, publishedAs,
                   regReads, rdAfterRemove>>
    /\ UNCHANGED notRegVars

RegNext ==
    \/ \E w \in Writers :
        \/ AddDecoderCall(w)
        \/ RemoveDecoderCall(w)
        \/ WriterLock(w)
        \/ AddDecoderBuild(w)
        \/ RemoveDecoderBuild(w)
        \/ WriterStore(w)
        \/ WriterUnlock(w)
    \/ \E r \in Readers :
        \/ GetDecoderLoad(r)
        \/ GetDecoderLookup(r)
        \/ GetDecoderReturn(r)

RegInPlaceNext ==
    \/ RegNext
    \/ AddDecoderInPlace
    \/ RemoveDecoderInPlace

(***************************************************************************)
(* Sample decoding                                                         *)
(***************************************************************************)
\* A raw sample is a byte slice: bytes holds its len(rawData) bytes and
\* extra the bytes of the backing array between its length and its
\* capacity. Go offsets count from 0, sequences from 1.
RawLen(raw) == Len(raw.bytes)
RawCap(raw) == Len(raw.bytes) + Len(raw.extra)
RawByte(raw, off) == (raw.bytes \o raw.extra)[off + 1]

\* What a decoding step gives: a value, an error, or a run-time panic
\* (index or slice bounds out of range).
Ok(v) == [kind |-> "ok", v |-> v]
Err(msg) == [kind |-> "error", v |-> msg]
Panic == [kind |-> "panic", v |-> "runtime error: out of range"]

\* Decoded values: an integer, a string (its bytes) or an array of integers.
IntValue(n) == [t |-> "int", v |-> <<n>>]
StringValue(b) == [t |-> "string", v |-> b]
ArrayValue(a) == [t |-> "array", v |-> a]

\* binary.LittleEndian.Uint16/Uint32/Uint64 on the bytes at an offset, and
\* the signed conversions. The values of the model fit in 31 bits: the top
\* byte of an unsigned 32-bit value is below 128 and the upper four bytes
\* of a 64-bit value repeat its sign.
Uint8At(raw, off) == RawByte(raw, off)
Uint16At(raw, off) == RawByte(raw, off) + 256 * RawByte(raw, off + 1)
Uint32At(raw, off) ==
    Uint16At(raw, off) + 65536 * RawByte(raw, off + 2)
        + 16777216 * RawByte(raw, off + 3)
Int8At(raw, off) ==
    IF RawByte(raw, off) >= 128 THEN RawByte(raw, off) - 256 ELSE RawByte(raw, off)
Int16At(raw, off) ==
    IF Uint16At(raw, off) >= 32768 THEN Uint16At(raw, off) - 65536
    ELSE Uint16At(raw, off)
Int32At(raw, off) ==
    Uint16At(raw, off) + 65536 * RawByte(raw, off + 2)
        + 16777216 * (IF RawByte(raw, off + 3) >= 128
                      THEN RawByte(raw, off + 3) - 256
                      ELSE RawByte(raw, off + 3))
Uint64At(raw, off) == Uint32At(raw, off)
Int64At(raw, off) == Int32At(raw, off)

\* The size in bytes of a value of each TraceEventFieldType.
FieldTypes == {"string", "s8", "s16", "s32", "s64", "u8", "u16", "u32", "u64"}
TypeWidth(dataType) ==
    CASE dataType \in {"s8", "u8", "string"} -> 1
      [] dataType \in {"s16", "u16"} -> 2
      [] dataType \in {"s32", "u32"} -> 4
      [] dataType \in {"s64", "u64"} -> 8
      [] OTHER -> 0

\* decodeDataType(dataType, rawData[off:]) (part_000:53-75). The argument
\* rawData[off:] panics when off is beyond the length; reading a value
\* from a slice shorter than the value panics too.
DecodeDataTypeAt(dataType, raw, off) ==
    IF off > RawLen(raw) THEN Panic
    ELSE IF dataType = "string"
         THEN Err("internal error; got unexpected TraceEventFieldTypeString")
    ELSE IF dataType \notin FieldTypes
         THEN Err("internal error; undefined dataType")
    ELSE IF off + TypeWidth(dataType) > RawLen(raw) THEN Panic
    ELSE CASE dataType = "s8"  -> Ok(Int8At(raw, off))
           [] dataType = "s16" -> Ok(Int16At(raw, off))
           [] dataType = "s32" -> Ok(Int32At(raw, off))
           [] dataType = "s64" -> Ok(Int64At(raw, off))
           [] dataType = "u8"  -> Ok(Uint8At(raw, off))
           [] dataType = "u16" -> Ok(Uint16At(raw, off))
           [] dataType = "u32" -> Ok(Uint32At(raw, off))
           [] dataType = "u64" -> Ok(Uint64At(raw, off))

\* The array loop of decodeRawData (part_000:115-123): arraySize elements
\* from dataOffset on, the first error or panic ending the decoding.
RECURSIVE DecodeArray(_, _, _, _, _)
DecodeArray(field, raw, dataOffset, arraySize, array) ==
    IF arraySize = 0 THEN Ok(ArrayValue(array))
    ELSE LET r == DecodeDataTypeAt(field.dataType, raw, dataOffset)
         IN  IF r.kind # "ok" THEN r
             ELSE DecodeArray(field, raw, dataOffset + field.dataTypeSize,
                              arraySize - 1, Append(array, r.v))

\* The bytes rawData[lo:hi] of a string conversion.
RawSlice(raw, lo, hi) == [i \in 1..(hi - lo) |-> RawByte(raw, lo + i - 1)]

\* The (offset, length) pair of a __data_loc word (part_000:84-93); the
\* reads panic when the word is not inside the sample.
DataLoc(field, raw) ==
    IF field.dataLocSize = 4
    THEN IF field.Offset + 4 > RawLen(raw) THEN Panic
         ELSE Ok([dataOffset |-> Uint16At(raw, field.Offset),
                  dataLength |-> Uint16At(raw, field.Offset + 2)])
    ELSE IF field.dataLocSize = 8
    THEN IF field.Offset + 8 > RawLen(raw) THEN Panic
         ELSE Ok([dataOffset |-> Uint32At(raw, field.Offset),
                  dataLength |-> Uint32At(raw, field.Offset + 4)])
    ELSE Err("__data_loc size is neither 4 nor 8")

\* A dynamic string (part_000:95-100): one trailing NUL is dropped; the
\* index and the slice expression panic when out of range.
DecodeDynamicString(raw, dataOffset, dataLength) ==
    IF dataLength > 0 /\ dataOffset + dataLength - 1 >= RawLen(raw) THEN Panic
    ELSE LET length == IF dataLength > 0
                          /\ RawByte(raw, dataOffset + dataLength - 1) = 0
                       THEN dataLength - 1 ELSE dataLength
         IN  IF dataOffset + length > RawCap(raw) THEN Panic
             ELSE Ok(StringValue(RawSlice(raw, dataOffset, dataOffset + length)))

\* A dynamic string whose terminator is kept.
DecodeFieldKeepsNul(field, raw) ==
    IF field.dataLocSize > 0 /\ field.dataType = "string"
          /\ DataLoc(field, raw).kind = "ok"
    THEN LET loc == DataLoc(field, raw).v
         IN  IF loc.dataOffset + loc.dataLength > RawCap(raw) THEN Panic
             ELSE Ok(StringValue(RawSlice(raw, loc.dataOffset,
                                          loc.dataOffset + loc.dataLength)))
    ELSE IF field.dataLocSize > 0
    THEN LET loc == DataLoc(field, raw)
         IN  IF loc.kind # "ok" THEN loc
             ELSE DecodeArray(field, raw, loc.v.dataOffset,
                              loc.v.dataLength \div field.dataTypeSize, << >>)
    ELSE IF field.arraySize = 0
    THEN LET r == DecodeDataTypeAt(field.dataType, raw, field.Offset)
         IN  IF r.kind = "ok" THEN Ok(IntValue(r.v)) ELSE r
    ELSE DecodeArray(field, raw, field.Offset, field.arraySize, << >>)

\* The body of decodeRawData's loop for one field (part_000:80-123).
DecodeField(field, raw) ==
    IF field.dataLocSize > 0
    THEN LET loc == DataLoc(field, raw)
         IN  IF loc.kind # "ok" THEN loc
             ELSE IF field.dataType = "string"
                  THEN DecodeDynamicString(raw, loc.v.dataOffset, loc.v.dataLength)
                  ELSE DecodeArray(field, raw, loc.v.dataOffset,
                                   loc.v.dataLength \div field.dataTypeSize, << >>)
    ELSE IF field.arraySize = 0
    THEN LET r == DecodeDataTypeAt(field.dataType, raw, field.Offset)
         IN  IF r.kind = "ok" THEN Ok(IntValue(r.v)) ELSE r
    ELSE DecodeArray(field, raw, field.Offset, field.arraySize, << >>)

\* decodeRawData (part_000:77-127): the field map when every field
\* decodes; otherwise the error or panic of the failing field the loop
\* meets first, the fields being visited in no particular order.
DecodeRawDataOutcomes(fields, raw) ==
    LET failing == {f \in fields : DecodeField(f, raw).kind # "ok"}
    IN  IF failing = {}
        THEN {Ok([name \in {f.FieldName : f \in fields} |->
                    DecodeField(CHOOSE f \in fields : f.FieldName = name, raw).v])}
        ELSE {DecodeField(f, raw) : f \in failing}

\* A field of an event's format: name, offset, __data_loc size (0 when the
\* field is not dynamic), element type and size, and array size.
Field(name, offset, dataLocSize, dataType, arraySize) ==
    [FieldName |-> name, Offset |-> offset, dataLocSize |-> dataLocSize,
     dataType |-> dataType, dataTypeSize |-> TypeWidth(dataType),
     arraySize |-> arraySize]

\* A value to lay out for a field; a dynamic field has its inline region at
\* the offset region, a string is followed by a NUL when nul is true.
Item(field, value, region, nul) ==
    [field |-> field, value |-> value, region |-> region, nul |-> nul]

\* Byte k (from 0) of the little-endian two's complement form of n.
LEByte(n, k) ==
    IF n >= 0 THEN (IF k < 4 THEN (n \div (256 ^ k)) % 256 ELSE 0)
    ELSE 255 - (IF k < 4 THEN (((-n) - 1) \div (256 ^ k)) % 256 ELSE 0)

\* The bytes of a sequence of integers, width bytes each.
ElementsBytes(width, elements) ==
    [i \in 1..(width * Len(elements)) |->
        LEByte(elements[((i - 1) \div width) + 1], (i - 1) % width)]

\* The inline region of a dynamic field.
Region(item) ==
    IF item.field.dataType = "string"
    THEN item.value.v \o (IF item.nul THEN <<0>> ELSE << >>)
    ELSE ElementsBytes(item.field.dataTypeSize, item.value.v)

\* The bytes an item puts in the payload, as (offset, byte) pairs: the
\* value at the field's offset, or for a dynamic field the __data_loc word
\* (offset then length of the region, half of the word each) and the region.
BytesAt(offset, bytes) == {<<offset + i - 1, bytes[i]>> : i \in 1..Len(bytes)}
ItemWrites(item) ==
    LET f == item.field
        half == f.dataLocSize \div 2
    IN  IF f.dataLocSize > 0
        THEN BytesAt(f.Offset, ElementsBytes(half, <<item.region>>))
                \cup BytesAt(f.Offset + half, ElementsBytes(half, <<Len(Region(item))>>))
                \cup BytesAt(item.region, Region(item))
        ELSE BytesAt(f.Offset, ElementsBytes(f.dataTypeSize, item.value.v))

\* The payload of a case: the event id in the first eight bytes, each value
\* at its place, zero elsewhere.
Payload(case) ==
    LET writes == BytesAt(0, ElementsBytes(8, <<case.id>>))
                    \cup UNION {ItemWrites(it) : it \in case.items}
    IN  [i \in 1..case.size |->
            IF \E w \in writes : w[1] = i - 1
            THEN (CHOOSE w \in writes : w[1] = i - 1)[2]
            ELSE 0]

\* Scalars of every type.
ScalarCases ==
    {[id |-> 66, size |-> 40,
      items |-> {Item(Field("pid", 8, 0, "u32", 0), IntValue(pid), 0, FALSE),
                 Item(Field("cpu", 12, 0, "u16", 0), IntValue(cpu), 0, FALSE),
                 Item(Field("nice", 14, 0, "s8", 0), IntValue(nice), 0, FALSE),
                 Item(Field("flag", 15, 0, "u8", 0), IntValue(255), 0, FALSE),
                 Item(Field("prio", 16, 0, "s16", 0), IntValue(prio), 0, FALSE),
                 Item(Field("delta", 20, 0, "s32", 0), IntValue(delta), 0, FALSE),
                 Item(Field("ts", 24, 0, "u64", 0), IntValue(16777216), 0, FALSE),
                 Item(Field("skew", 32, 0, "s64", 0), IntValue(skew), 0, FALSE)}] :
        pid \in {7, 2147483647}, cpu \in {3, 65535}, nice \in {-128, 127},
        prio \in {-1, 256}, delta \in {-2, 65536}, skew \in {-1, 5}}

\* A dynamic string after a scalar, with a 4- or 8-byte __data_loc word.
StringCases ==
    {[id |-> 67, size |-> 20 + Len(chars) + (IF nul THEN 1 ELSE 0),
      items |-> {Item(Field("pid", 16, 0, "u32", 0), IntValue(7), 0, FALSE),
                 Item(Field("comm", 8, dataLocSize, "string", 0),
                      StringValue(chars), 20, nul)}] :
        dataLocSize \in {4, 8}, nul \in BOOLEAN,
        chars \in {<< >>, <<99, 97, 116>>, <<99, 0>>}}

\* A fixed array of u16 and one of s8, and dynamic arrays.
ArrayCases ==
    {[id |-> 68, size |-> 15,
      items |-> {Item(Field("ports", 8, 0, "u16", 2), ArrayValue(<<1, last>>), 0, FALSE),
                 Item(Field("levels", 12, 0, "s8", 3), ArrayValue(<<-1, 0, 127>>),
                      0, FALSE)}] : last \in {0, 65535}}
    \cup
    {[id |-> 69, size |-> 16 + 2 * Len(elements),
      items |-> {Item(Field("args", 8, dataLocSize, "s16", 0),
                      ArrayValue(elements), 16, FALSE)}] :
        dataLocSize \in {4, 8}, elements \in {<< >>, <<-1, 300>>}}
    \cup
    {[id |-> 72, size |-> 16 + 4 * Len(elements),
      items |-> {Item(Field("sizes", 8, dataLocSize, "u32", 0),
                      ArrayValue(elements), 16, FALSE)}] :
        dataLocSize \in {4, 8}, elements \in {<<7>>, <<65536, 0, 1>>}}

\* Formats the decoder rejects: a __data_loc word of 2 bytes, and a string
\* that is not dynamic.
RejectedCases ==
    {[id |-> 70, size |-> 12,
      items |-> {Item(Field("odd", 8, 2, "u8", 0), ArrayValue(<< >>), 10, FALSE)}],
     [id |-> 71, size |-> 12,
      items |-> {Item(Field("name", 8, 0, "string", 0), IntValue(0), 0, FALSE)}]}

Cases == ScalarCases \cup StringCases \cup ArrayCases \cup RejectedCases

\* The raw data of a sample: the payload of a case less its last cut
\* bytes, which stay in the capacity of the slice when extra is true.
RawOf(case, cut, extra) ==
    [bytes |-> SubSeq(Payload(case), 1, case.size - cut),
     extra |-> IF extra THEN SubSeq(Payload(case), case.size - cut + 1, case.size)
               ELSE << >>]

FieldsOf(case) == {it.field : it \in case.items}

NoCase == [id |-> 0, size |-> 0, items |-> {}]
NoInput == [case |-> NoCase, raw |-> [bytes |-> << >>, extra |-> << >>],
            known |-> FALSE, snapshot |-> {}]

\* The event ids for which a registry snapshot can hold a decoder: that of
\* the sample's case and another one.
OtherEventType == 99
Snapshots(case) == {{}, {case.id}, {OtherEventType}}

\* Raw data whose reserved header byte at offset 2 holds the given value.
WithReserved(raw, reserved) ==
    [raw EXCEPT !.bytes = [i \in 1..Len(raw.bytes) |->
                             IF i = 3 THEN reserved ELSE raw.bytes[i]]]

\* An event type taken from the low 32 bits of the header.
EventTypeOfLow32(raw) == Uint32At(raw, 0)

\* uint16(binary.LittleEndian.Uint64(sample.RawData)) (part_000:270): the
\* low 16 bits of the header.
EventTypeOf(raw) == Uint16At(raw, 0)
NoOutput == [kind |-> "none", data |-> EmptyMap, decodedSample |-> "nil",
             fnCalled |-> FALSE]

DecInit ==
    /\ decPc = "idle"
    /\ decIn = NoInput
    /\ decOut = NoOutput
    /\ decCalls = 0

\* The monitor reads a sample and calls DecodeSample with the registry
\* snapshot of the moment; known tells whether
\* the registry snapshot holds a decoder for the sample's event id.
SampleArrives ==
    /\ decPc = "idle"
    /\ decCalls < MaxDecodes
    /\ decCalls' = decCalls + 1
    /\ \E case \in Cases, cut \in 0..MaxCut, extra \in BOOLEAN, reserved \in {0, 1} :
          \E snapshot \in Snapshots(case) :
              /\ (cut = 0 => ~extra)
              /\ decIn' = [case |-> case,
                           raw |-> WithReserved(RawOf(case, cut, extra), reserved),
                           known |-> case.id \in snapshot,
                           snapshot |-> snapshot]
    /\ decPc' = "decoding"
    /\ decOut' = NoOutput
    /\ UNCHANGED notDecVars

\* decoder.decoderfn(sample, data): the decoded sample built from the data.
DecoderFn(data) == "decoded"

\* DecodeSample (part_000:269-284).
DecodeSampleResults(in) ==
    IF RawLen(in.raw) < 8
    THEN {[kind |-> "panic", data |-> EmptyMap, decodedSample |-> "nil",
           fnCalled |-> FALSE]}
    ELSE IF EventTypeOf(in.raw) \notin in.snapshot
    THEN {[kind |-> "ok", data |-> EmptyMap, decodedSample |-> "nil",
           fnCalled |-> FALSE]}
    ELSE {IF r.kind = "ok"
          THEN [kind |-> "ok", data |-> r.v, decodedSample |-> DecoderFn(r.v),
                fnCalled |-> TRUE]
          ELSE [kind |-> r.kind, data |-> EmptyMap, decodedSample |-> "nil",
                fnCalled |-> FALSE] :
            r \in DecodeRawDataOutcomes(FieldsOf(in.case), in.raw)}

DecodeSample ==
    /\ decPc = "decoding"
    /\ \E out \in DecodeSampleResults(decIn) :
          /\ decOut' = out
          /\ decPc' = IF out.kind = "panic" THEN "panic" ELSE "done"
    /\ UNCHANGED <<decIn, decCalls>>
    /\ UNCHANGED notDecVars

\* The monitor is done with the sample and reads the next one.
DecodeSampleReturn ==
    /\ decPc = "done"
    /\ decPc' = "idle"
    /\ decIn' = NoInput
    /\ decOut' = NoOutput
    /\ UNCHANGED decCalls
    /\ UNCHANGED notDecVars

DecNext ==
    \/ SampleArrives
    \/ DecodeSample
    \/ DecodeSampleReturn

(***************************************************************************)
(* Subscriptions and dispatch                                              *)
(***************************************************************************)
\* The subscriptions created (createPerfEventStream calls), in the order
\* their calls start.
SubIDs == {1, 2}

\* The event ids the monitor knows, and what a subscription asks for: the
\* event ids its register*Events calls put in its eventMap and the filter
\* they carry. Event 1 can be shared by two subscriptions, event 2 belongs
\* to one at most unless both ask for it.
MonitorEvents == {1, 2}
Requests == {[ids |-> {1}, filter |-> "none"],
             [ids |-> {1, 2}, filter |-> "val1"],
             [ids |-> {1}, filter |-> "bad"]}
SampleValues == {0, 1}

\* filter.Evaluate and expression.IsValueTrue on a sample's decoded data:
\* "val1" is true of the samples whose value is 1, "bad" fails to evaluate.
FilterEvaluate(filter, sample) ==
    [err |-> filter = "bad", true |-> filter = "val1" /\ sample.val = 1]

\* A test that sends the event unless the filter fails to evaluate.
PassesFilterUnlessError(filter, sample) ==
    IF filter # "none"
    THEN ~FilterEvaluate(filter, sample).err
    ELSE TRUE

\* The test of dispatchSample's closure (sensor.go:190-204): whether the
\* event goes on to the send.
PassesFilter(filter, sample) ==
    IF filter # "none"
    THEN LET r == FilterEvaluate(filter, sample)
         IN  IF r.err THEN FALSE ELSE r.true
    ELSE TRUE

\* safeSubscriptionMap: event id -> the subscriptions on it. subscribe and
\* unsubscribe publish a new map; unsubscribe also reports the event ids
\* left without a subscription to its callback.
NewSubscriptionMap == [e \in MonitorEvents |-> {}]
Subscribe(m, s, ids) ==
    [e \in MonitorEvents |-> IF e \in ids THEN m[e] \cup {s} ELSE m[e]]
Unsubscribe(m, s) == [e \in MonitorEvents |-> m[e] \ {s}]
EmptiedBy(m, s) == {e \in MonitorEvents : m[e] = {s}}

\* subscriptionMap.forEach visits every (event id, subscription) entry.
Entries(m) == {en \in MonitorEvents \X SubIDs : en[2] \in m[en[1]]}

\* perf.EventMonitor: registering, enabling and unregistering events.
NewMonitor ==
    [registered |-> {}, enabled |-> {},
     unregisterCalls |-> [e \in MonitorEvents |-> 0]]
MonitorRegister(mon, ids) == [mon EXCEPT !.registered = @ \cup ids]
MonitorEnable(mon, e) ==
    [mon EXCEPT !.enabled = @ \cup ({e} \cap mon.registered)]
MonitorUnregisterEvent(mon, e) ==
    [registered |-> mon.registered \ {e},
     enabled |-> mon.enabled \ {e},
     unregisterCalls |-> [mon.unregisterCalls EXCEPT ![e] = @ + 1]]
MonitorDisable(mon, e) == [mon EXCEPT !.enabled = @ \ {e}]

\* A callback that disables the event and leaves it registered.
UnsubscribeCallbackDisables(mon, eventID) == MonitorDisable(mon, eventID)

\* The callback the teardown passes to unsubscribe (sensor.go:465-467).
UnsubscribeCallback(mon, eventID) == MonitorUnregisterEvent(mon, eventID)

\* unsubscribe calling the callback for each of the event ids in ids.
RECURSIVE CallbackForEach(_, _)
CallbackForEach(mon, ids) ==
    IF ids = {} THEN mon
    ELSE LET e == CHOOSE x \in ids : TRUE
         IN  CallbackForEach(UnsubscribeCallback(mon, e), ids \ {e})

NoSample == [n |-> 0, val |-> 0]

\* A panic of the monitor's goroutine or of a teardown goroutine ends the
\* process.
Running == dPc # "panic" /\ \A s \in SubIDs : tdPc[s] # "panic"

DispInit ==
    /\ subPc = [s \in SubIDs |-> "none"]
    /\ subIds = [s \in SubIDs |-> {}]
    /\ subFilter = [s \in SubIDs |-> "none"]
    /\ toEnable = [s \in SubIDs |-> {}]
    /\ eventMap = NewSubscriptionMap
    /\ monitor = NewMonitor
    /\ ctrlClosed = [s \in SubIDs |-> FALSE]
    /\ tdPc = [s \in SubIDs |-> "none"]
    /\ chanBuf = [s \in SubIDs |-> << >>]
    /\ chanClosed = [s \in SubIDs |-> FALSE]
    /\ received = [s \in SubIDs |-> << >>]
    /\ dPc = "idle"
    /\ dSample = NoSample
    /\ dSnap = NewSubscriptionMap
    /\ dTodo = {}
    /\ dCur = 0
    /\ samples = 0
    /\ ctrlValues = 0
    /\ subFailed = [s \in SubIDs |-> {}]
    /\ metricsSubscriptions = 0
    /\ dataSet = [s \in SubIDs |-> FALSE]
    /\ monitorPtr = "set"

\* createPerfEventStream, the register*Events calls (sensor.go:434-444):
\* the subscription's events are registered with the monitor and entered,
\* with the subscription's filter, in its own eventMap.
CreateRegister(s) ==
    /\ Running
    /\ monitorPtr = "set"
    /\ subPc[s] = "none"
    /\ IF s = 1 THEN TRUE ELSE subPc[s - 1] # "none"
    /\ \E req \in Requests :
          /\ subIds' = [subIds EXCEPT ![s] = req.ids]
          /\ subFilter' = [subFilter EXCEPT ![s] = req.filter]
          /\ monitor' = MonitorRegister(monitor, req.ids)
    /\ subPc' = [subPc EXCEPT ![s] = "registered"]
    /\ UNCHANGED <<dataSet, monitorPtr, toEnable, eventMap, ctrlClosed, tdPc, chanBuf, chanClosed,
                   received, dPc, dSample, dSnap, dTodo, dCur, samples,
                   ctrlValues, subFailed, metricsSubscriptions>>
    /\ UNCHANGED notDispVars

\* A createPerfEventStream that subscribes its map and assigns the data
\* channel to the entries afterwards, while it enables the events.
CreateSubscribeBeforeData(s) ==
    /\ Running
    /\ subPc[s] = "registered"
    /\ eventMap' = Subscribe(eventMap, s, subIds[s])
    /\ tdPc' = [tdPc EXCEPT ![s] = "waiting"]
    /\ toEnable' = [toEnable EXCEPT ![s] = subIds[s]]
    /\ subPc' = [subPc EXCEPT ![s] = "enabling"]
    /\ UNCHANGED <<dataSet, monitorPtr, subIds, subFilter, monitor, ctrlClosed,
                   chanBuf, chanClosed, received, dPc, dSample, dSnap, dTodo,
                   dCur, samples, ctrlValues, subFailed, metricsSubscriptions>>
    /\ UNCHANGED notDispVars

\* The channels are made, every entry gets the data channel
\* (sensor.go:446-451), then the map is subscribed (452) and the teardown
\* goroutine is started (455-471). The entries are the call's own until
\* subscribe publishes them.
CreateSubscribe(s) ==
    /\ Running
    /\ subPc[s] = "registered"
    /\ dataSet' = [dataSet EXCEPT ![s] = TRUE]
    /\ eventMap' = Subscribe(eventMap, s, subIds[s])
    /\ tdPc' = [tdPc EXCEPT ![s] = "waiting"]
    /\ toEnable' = [toEnable EXCEPT ![s] = subIds[s]]
    /\ subPc' = [subPc EXCEPT ![s] = "enabling"]
    /\ UNCHANGED <<monitorPtr, subIds, subFilter, monitor, ctrlClosed, chanBuf, chanClosed,
                   received, dPc, dSample, dSnap, dTodo, dCur, samples,
                   ctrlValues, subFailed, metricsSubscriptions>>
    /\ UNCHANGED notDispVars

\* s.monitor.Enable(eventID), one event id of the map at a time
\* (sensor.go:473-475).
CreateEnable(s) ==
    /\ Running
    /\ subPc[s] = "enabling"
    /\ \E e \in toEnable[s] :
          /\ monitor' = MonitorEnable(monitor, e)
          /\ toEnable' = [toEnable EXCEPT ![s] = @ \ {e}]
    /\ UNCHANGED <<dataSet, monitorPtr, subPc, subIds, subFilter, eventMap, ctrlClosed, tdPc, chanBuf,
                   chanClosed, received, dPc, dSample, dSnap, dTodo, dCur, samples,
                   ctrlValues, subFailed, metricsSubscriptions>>
    /\ UNCHANGED notDispVars

\* The stream is returned to NewSubscription (sensor.go:477-480), which
\* counts the subscription and returns the stream with a nil error
\* (sensor.go:511-518, 562-565).
CreateReturn(s) ==
    /\ Running
    /\ subPc[s] = "enabling"
    /\ toEnable[s] = {}
    /\ subPc' = [subPc EXCEPT ![s] = "live"]
    /\ metricsSubscriptions' = metricsSubscriptions + 1
    /\ UNCHANGED <<dataSet, monitorPtr, subIds, subFilter, toEnable, eventMap, monitor, ctrlClosed, tdPc,
                   chanBuf, chanClosed, received, dPc, dSample, dSnap, dTodo, dCur,
                   samples, ctrlValues, subFailed>>
    /\ UNCHANGED notDispVars

\* The consumer receives from the data channel; a closed channel still
\* hands out what it has buffered.
ConsumerReceive(s) ==
    /\ Running
    /\ subPc[s] = "live"
    /\ chanBuf[s] # << >>
    /\ received' = [received EXCEPT ![s] = Append(@, Head(chanBuf[s]))]
    /\ chanBuf' = [chanBuf EXCEPT ![s] = Tail(@)]
    /\ UNCHANGED <<dataSet, monitorPtr, subPc, subIds, subFilter, toEnable, eventMap, monitor, ctrlClosed,
                   tdPc, chanClosed, dPc, dSample, dSnap, dTodo, dCur, samples,
                   ctrlValues, subFailed, metricsSubscriptions>>
    /\ UNCHANGED notDispVars

\* What a subscription asks for when the schema of one of its events
\* cannot be loaded: the events that load and the events that fail.
FailingRequests == {[ids |-> {1}, failed |-> {2}, filter |-> "none"],
                    [ids |-> {}, failed |-> {1}, filter |-> "none"]}

\* The error NewSubscription returns for its perf event stream:
\* createPerfEventStream returns a nil error at both of its returns
\* (sensor.go:443, 477-480), so the branch at sensor.go:512-515 is not taken.
CreatePerfEventStreamError == "nil"

\* createPerfEventStream when the schema of an event cannot be loaded: the
\* register*Events calls return nothing (sensor.go:436-440), the events
\* that loaded are registered and entered in the eventMap. With an empty
\* eventMap the call returns no stream and no error (sensor.go:442-444)
\* and NewSubscription counts the subscription and returns
\* (sensor.go:516-518, 562-565).
CreateRegisterSchemaError(s) ==
    /\ Running
    /\ monitorPtr = "set"
    /\ subPc[s] = "none"
    /\ IF s = 1 THEN TRUE ELSE subPc[s - 1] # "none"
    /\ \E req \in FailingRequests :
          /\ subIds' = [subIds EXCEPT ![s] = req.ids]
          /\ subFilter' = [subFilter EXCEPT ![s] = req.filter]
          /\ subFailed' = [subFailed EXCEPT ![s] = req.failed]
          /\ monitor' = MonitorRegister(monitor, req.ids)
          /\ IF req.ids = {}
             THEN /\ subPc' = [subPc EXCEPT ![s] = "nostream"]
                  /\ metricsSubscriptions' = metricsSubscriptions + 1
             ELSE /\ subPc' = [subPc EXCEPT ![s] = "registered"]
                  /\ UNCHANGED metricsSubscriptions
    /\ UNCHANGED <<dataSet, monitorPtr, toEnable, eventMap, ctrlClosed, tdPc, chanBuf, chanClosed,
                   received, dPc, dSample, dSnap, dTodo, dCur, samples, ctrlValues>>
    /\ UNCHANGED notDispVars

\* The consumer sends a value on the control channel: the teardown
\* goroutine receives it with ok = true and waits again
\* (sensor.go:458-460, 470).
ConsumerSendCtrl(s) ==
    /\ Running
    /\ subPc[s] = "live"
    /\ ~ctrlClosed[s]
    /\ tdPc[s] = "waiting"
    /\ ctrlValues < MaxCtrlValues
    /\ ctrlValues' = ctrlValues + 1
    /\ UNCHANGED <<dataSet, monitorPtr, subPc, subIds, subFilter, toEnable, eventMap, monitor, ctrlClosed,
                   tdPc, chanBuf, chanClosed, received, dPc, dSample, dSnap, dTodo,
                   dCur, samples, subFailed, metricsSubscriptions>>
    /\ UNCHANGED notDispVars

\* The consumer closes the control channel of its stream.
ConsumerCloseCtrl(s) ==
    /\ Running
    /\ subPc[s] = "live"
    /\ ~ctrlClosed[s]
    /\ ctrlClosed' = [ctrlClosed EXCEPT ![s] = TRUE]
    /\ UNCHANGED <<dataSet, monitorPtr, subPc, subIds, subFilter, toEnable, eventMap, monitor, tdPc,
                   chanBuf, chanClosed, received, dPc, dSample, dSnap, dTodo, dCur,
                   samples,
                   ctrlValues, subFailed, metricsSubscriptions>>
    /\ UNCHANGED notDispVars

\* The teardown goroutine finds the control channel closed and calls
\* unsubscribe with its callback (sensor.go:459-468). The callback reads
\* s.monitor with no synchronisation with Stop's write of it
\* (sensor.go:169, 466): after Stop it reads nil, and the call panics, or
\* the pointer to the closed monitor.
TeardownUnsubscribe(s) ==
    /\ Running
    /\ tdPc[s] = "waiting"
    /\ ctrlClosed[s]
    /\ eventMap' = Unsubscribe(eventMap, s)
    /\ IF monitorPtr = "nil" /\ EmptiedBy(eventMap, s) # {}
       THEN \E read \in {"nil", "stale"} :
               IF read = "nil"
               THEN /\ tdPc' = [tdPc EXCEPT ![s] = "panic"]
                    /\ UNCHANGED monitor
               ELSE /\ monitor' = CallbackForEach(monitor, EmptiedBy(eventMap, s))
                    /\ tdPc' = [tdPc EXCEPT ![s] = "unsubscribed"]
       ELSE /\ monitor' = CallbackForEach(monitor, EmptiedBy(eventMap, s))
            /\ tdPc' = [tdPc EXCEPT ![s] = "unsubscribed"]
    /\ UNCHANGED <<dataSet, monitorPtr, subPc, subIds, subFilter, toEnable, ctrlClosed, chanBuf,
                   chanClosed, received, dPc, dSample, dSnap, dTodo, dCur, samples,
                   ctrlValues, subFailed, metricsSubscriptions>>
    /\ UNCHANGED notDispVars

\* The goroutine returns without closing the data channel.
TeardownReturnsWithoutClose(s) ==
    /\ Running
    /\ tdPc[s] = "unsubscribed"
    /\ tdPc' = [tdPc EXCEPT ![s] = "done"]
    /\ UNCHANGED <<dataSet, monitorPtr, subPc, subIds, subFilter, toEnable, eventMap, monitor, ctrlClosed,
                   chanBuf, chanClosed, received, dPc, dSample, dSnap, dTodo, dCur,
                   samples,
                   ctrlValues, subFailed, metricsSubscriptions>>
    /\ UNCHANGED notDispVars

\* The goroutine returns and its deferred close(data) runs
\* (sensor.go:456, 468).
TeardownClose(s) ==
    /\ Running
    /\ tdPc[s] = "unsubscribed"
    /\ chanClosed' = [chanClosed EXCEPT ![s] = TRUE]
    /\ tdPc' = [tdPc EXCEPT ![s] = "done"]
    /\ UNCHANGED <<dataSet, monitorPtr, subPc, subIds, subFilter, toEnable, eventMap, monitor, ctrlClosed,
                   chanBuf, received, dPc, dSample, dSnap, dTodo, dCur, samples,
                   ctrlValues, subFailed, metricsSubscriptions>>
    /\ UNCHANGED notDispVars

\* The monitor hands a sample of an enabled event to dispatchSample
\* (sensor.go:182-189): a sample that decoded to no telemetry event is
\* dropped, otherwise the subscription map is loaded and forEach starts.
\* The closure's eventID parameter hides dispatchSample's, which is not
\* used: the sample's event id plays no part.
DispatchBegin ==
    /\ Running
    /\ monitorPtr = "set"
    /\ dPc = "idle"
    /\ samples < MaxSamples
    /\ samples' = samples + 1
    /\ monitor.enabled # {}
    /\ \E val \in SampleValues, telemetry \in BOOLEAN :
          IF telemetry
          THEN /\ dSample' = [n |-> samples + 1, val |-> val]
               /\ dSnap' = eventMap
               /\ dTodo' = Entries(eventMap)
               /\ dPc' = "forEach"
          ELSE UNCHANGED <<dPc, dSample, dSnap, dTodo>>
    /\ UNCHANGED <<dataSet, monitorPtr, subPc, subIds, subFilter, toEnable, eventMap, monitor, ctrlClosed,
                   tdPc, chanBuf, chanClosed, received, dCur,
                   ctrlValues, subFailed, metricsSubscriptions>>
    /\ UNCHANGED notDispVars

\* A forEach that ends at the first entry whose filter fails to evaluate.
DispatchVisitStopsOnError ==
    /\ Running
    /\ dPc = "forEach"
    /\ \E en \in dTodo :
          IF FilterEvaluate(subFilter[en[2]], dSample).err /\ subFilter[en[2]] # "none"
          THEN /\ dTodo' = {}
               /\ UNCHANGED <<dCur, dPc>>
          ELSE /\ dTodo' = dTodo \ {en}
               /\ IF PassesFilter(subFilter[en[2]], dSample)
                  THEN /\ dCur' = en[2]
                       /\ dPc' = "send"
                  ELSE UNCHANGED <<dCur, dPc>>
    /\ UNCHANGED <<dataSet, monitorPtr, subPc, subIds, subFilter, toEnable, eventMap, monitor, ctrlClosed,
                   tdPc, chanBuf, chanClosed, received, dSample, dSnap, samples,
                   ctrlValues, subFailed, metricsSubscriptions>>
    /\ UNCHANGED notDispVars

\* forEach calls the closure on the next entry, in no particular order
\* (sensor.go:189-204): the entry is skipped when its data channel is nil
\* or when its filter fails or is not true, otherwise the closure goes on
\* to the send.
DispatchVisit ==
    /\ Running
    /\ dPc = "forEach"
    /\ \E en \in dTodo :
          /\ dTodo' = dTodo \ {en}
          /\ IF dataSet[en[2]] /\ PassesFilter(subFilter[en[2]], dSample)
             THEN /\ dCur' = en[2]
                  /\ dPc' = "send"
             ELSE UNCHANGED <<dCur, dPc>>
    /\ UNCHANGED <<dataSet, monitorPtr, subPc, subIds, subFilter, toEnable, eventMap, monitor, ctrlClosed,
                   tdPc, chanBuf, chanClosed, received, dSample, dSnap, samples,
                   ctrlValues, subFailed, metricsSubscriptions>>
    /\ UNCHANGED notDispVars

\* Whether s.data <- event can complete: a send on a closed channel panics,
\* a send on a full channel waits for the consumer.
SendCompletes(s) == chanClosed[s] \/ Len(chanBuf[s]) < ChannelBufferLength

\* A send that puts the event in front of the events already buffered.
DispatchSendInFront ==
    /\ Running
    /\ dPc = "send"
    /\ SendCompletes(dCur)
    /\ IF chanClosed[dCur]
       THEN /\ dPc' = "panic"
            /\ UNCHANGED <<chanBuf, dCur>>
       ELSE /\ chanBuf' = [chanBuf EXCEPT ![dCur] =
                             <<[n |-> dSample.n, late |-> tdPc[dCur] = "done"]>> \o @]
            /\ dPc' = "forEach"
            /\ dCur' = 0
    /\ UNCHANGED <<dataSet, monitorPtr, subPc, subIds, subFilter, toEnable, eventMap, monitor, ctrlClosed,
                   tdPc, chanClosed, received, dSample, dSnap, dTodo, samples,
                   ctrlValues, subFailed, metricsSubscriptions>>
    /\ UNCHANGED notDispVars

\* s.data <- event (sensor.go:205).
DispatchSend ==
    /\ Running
    /\ dPc = "send"
    /\ SendCompletes(dCur)
    /\ IF chanClosed[dCur]
       THEN /\ dPc' = "panic"
            /\ UNCHANGED <<chanBuf, dCur>>
       ELSE /\ chanBuf' = [chanBuf EXCEPT ![dCur] =
                             Append(@, [n |-> dSample.n,
                                        late |-> tdPc[dCur] = "done"])]
            /\ dPc' = "forEach"
            /\ dCur' = 0
    /\ UNCHANGED <<dataSet, monitorPtr, subPc, subIds, subFilter, toEnable, eventMap, monitor, ctrlClosed,
                   tdPc, chanClosed, received, dSample, dSnap, dTodo, samples,
                   ctrlValues, subFailed, metricsSubscriptions>>
    /\ UNCHANGED notDispVars

\* forEach has visited every entry: dispatchSample returns (sensor.go:206-208).
DispatchReturn ==
    /\ Running
    /\ dPc = "forEach"
    /\ dTodo = {}
    /\ dPc' = "idle"
    /\ dSample' = NoSample
    /\ dSnap' = NewSubscriptionMap
    /\ UNCHANGED <<dataSet, monitorPtr, subPc, subIds, subFilter, toEnable, eventMap, monitor, ctrlClosed,
                   tdPc, chanBuf, chanClosed, received, dTodo, dCur, samples,
                   ctrlValues, subFailed, metricsSubscriptions>>
    /\ UNCHANGED notDispVars

DispNext ==
    \/ \E s \in SubIDs :
        \/ CreateRegister(s)
        \/ CreateSubscribe(s)
        \/ CreateEnable(s)
        \/ CreateReturn(s)
        \/ ConsumerReceive(s)
        \/ ConsumerCloseCtrl(s)
        \/ TeardownUnsubscribe(s)
        \/ TeardownClose(s)
    \/ DispatchBegin
    \/ DispatchVisit
    \/ DispatchSend
    \/ DispatchReturn

\* Sensor.Stop (sensor.go:165-171): the monitor is closed, which ends its
\* Run loop, and s.monitor is set to nil. Stop closes no subscription and
\* waits for no teardown goroutine. It is called while no NewSubscription
\* call is in progress.
Stop ==
    /\ Running
    /\ monitorPtr = "set"
    /\ \A s \in SubIDs : subPc[s] \in {"none", "live", "nostream"}
    /\ monitorPtr' = "nil"
    /\ UNCHANGED <<dataSet, subPc, subIds, subFilter, toEnable, eventMap, monitor,
                   ctrlClosed, tdPc, chanBuf, chanClosed, received, dPc, dSample,
                   dSnap, dTodo, dCur, samples, ctrlValues, subFailed,
                   metricsSubscriptions>>
    /\ UNCHANGED notDispVars

\* Dispatch with a sensor that can be stopped.
DispStopNext ==
    \/ DispNext
    \/ Stop

\* Dispatch with consumers that also send values on their control channels.
DispCtrlNext ==
    \/ DispNext
    \/ \E s \in SubIDs : ConsumerSendCtrl(s)

\* Dispatch with subscriptions some of whose schemas cannot be loaded.
DispSetupNext ==
    \/ DispNext
    \/ \E s \in SubIDs : CreateRegisterSchemaError(s)

(***************************************************************************)
(* Specifications                                                          *)
(***************************************************************************)
Init == EvInit /\ RegInit /\ DispInit /\ DecInit

EventSpec == Init /\ [][EvNext]_vars

RegistrySpec == Init /\ [][RegNext]_vars

RegistryInPlaceSpec == Init /\ [][RegInPlaceNext]_vars

DispatchSpec == Init /\ [][DispNext]_vars

StopSpec == Init /\ [][DispStopNext]_vars

\* Goroutines that can run do run: the monitor's goroutine inside
\* dispatchSample, the callers of createPerfEventStream and the teardown
\* goroutines. The consumers of every
\* subscription but the first keep reading; the first one may never read.
DispatchFairSpec ==
    /\ Init
    /\ [][DispNext]_vars
    /\ WF_vars(DispatchVisit)
    /\ WF_vars(DispatchSend)
    /\ WF_vars(DispatchReturn)
    /\ \A s \in SubIDs : WF_vars(CreateSubscribe(s))
    /\ \A s \in SubIDs : WF_vars(CreateEnable(s))
    /\ \A s \in SubIDs : WF_vars(CreateReturn(s))
    /\ \A s \in SubIDs : WF_vars(TeardownUnsubscribe(s))
    /\ \A s \in SubIDs : WF_vars(TeardownClose(s))
    /\ \A s \in SubIDs \ {1} : WF_vars(ConsumerReceive(s))

\* As DispatchFairSpec, with every consumer reading and with values sent
\* on control channels.
CancellationFairSpec ==
    /\ Init
    /\ [][DispCtrlNext]_vars
    /\ WF_vars(DispatchVisit)
    /\ WF_vars(DispatchSend)
    /\ WF_vars(DispatchReturn)
    /\ \A s \in SubIDs : WF_vars(CreateSubscribe(s))
    /\ \A s \in SubIDs : WF_vars(CreateEnable(s))
    /\ \A s \in SubIDs : WF_vars(CreateReturn(s))
    /\ \A s \in SubIDs : WF_vars(TeardownUnsubscribe(s))
    /\ \A s \in SubIDs : WF_vars(TeardownClose(s))
    /\ \A s \in SubIDs : WF_vars(ConsumerReceive(s))

SetupSpec == Init /\ [][DispSetupNext]_vars

DecodeSpec == Init /\ [][DecNext]_vars

(***************************************************************************)
(* Claims about event stamping                                             *)
(***************************************************************************)
\* C5: when the NewEvent, NewEventFromContainer and NewEventFromSample calls
\* on one sensor follow one another (no call starts while another one is
\* running), the k-th event created carries SensorSequenceNumber = k: the
\* first carries 1, each later one carries one more than the one before, and
\* 0 is never emitted.
SequentialCallsNumberedInOrder ==
    ~overlapped =>
        \A k \in 1..Len(emitted) : emitted[k].SensorSequenceNumber = k

\* Three calls of the three kinds have returned one after the other.
SequentialCallsWitness ==
    /\ ~overlapped
    /\ Len(emitted) >= 3
    /\ {emitted[k].kind : k \in 1..Len(emitted)} = {"plain", "container", "sample"}

\* C6: no two events created by one sensor carry the same sequence number,
\* whichever goroutines call NewEvent and however their calls interleave.
SequenceNumbersUnique ==
    \A i, j \in 1..Len(emitted) :
        i # j => emitted[i].SensorSequenceNumber # emitted[j].SensorSequenceNumber

\* The expected id of an event: the hash of the 80 bytes made of the sensor
\* id, the sequence number and the monotime stamped on the event.
ExpectedEventID(e) ==
    Sha256Hex(StringBytes(e.SensorId) \o LittleEndianU64(e.SensorSequenceNumber)
                        \o LittleEndianI64(e.SensorMonotimeNanos))

\* C7: every event returned by NewEvent, NewEventFromContainer and
\* NewEventFromSample has Id = hex(SHA-256(sensor id || u64 little-endian
\* sequence number || i64 little-endian monotime)) of the values stamped on
\* that same event.
EventIdHashesStampedFields ==
    \A k \in 1..Len(emitted) : emitted[k].Id = ExpectedEventID(emitted[k])

(***************************************************************************)
(* Claims about the decoder registry                                       *)
(***************************************************************************)
NamesMatchDecoders(dm) ==
    {dm.names[n] : n \in DOMAIN dm.names} = DOMAIN dm.decoders

\* C8: in every snapshot published by AddDecoder and RemoveDecoder calls,
\* some name maps to an id exactly when a decoder exists under that id.
PublishedNamesMatchDecoders ==
    \A p \in DOMAIN publishedAs : NamesMatchDecoders(publishedAs[p])

\* A and B were added and A was removed: the active snapshot holds B alone.
RemovedFromSnapshotWitness ==
    /\ active # 0
    /\ DOMAIN dmHeap[active].names = {"B"}
    /\ \E p \in DOMAIN publishedAs : DOMAIN publishedAs[p].names = {"A", "B"}

\* What a published snapshot held under an id.
PublishedLookup(p, eventType) ==
    IF p = 0 THEN NilDecoder
    ELSE IF eventType \in DOMAIN publishedAs[p].decoders
         THEN publishedAs[p].decoders[eventType]
         ELSE NilDecoder

\* C9: while writers run AddDecoder and RemoveDecoder, the decoder a reader
\* obtains for an id is the decoder (field set and decoder function) that
\* the snapshot it loaded held for that id when it was published, and that
\* snapshot is a published one, never a map still being built.
ReaderSeesPublishedDecoder ==
    \A r \in Readers :
        /\ rdPc[r] # "idle" =>
              rdLocal[r].dm = 0 \/ rdLocal[r].dm \in DOMAIN publishedAs
        /\ rdPc[r] = "done" =>
              rdLocal[r].result = PublishedLookup(rdLocal[r].dm, rdLocal[r].eventType)

\* A reader obtained a decoder from a snapshot that a writer has replaced
\* in the meantime by one that holds another decoder, or none, for that id.
ReaderUsesOlderSnapshotWitness ==
    \E r \in Readers :
        /\ rdPc[r] = "done"
        /\ rdLocal[r].result # NilDecoder
        /\ active # rdLocal[r].dm
        /\ DecoderLookup(active, rdLocal[r].eventType) # rdLocal[r].result

NoDecoderAfterRemoveReturned ==
    \A r \in Readers :
        rdPc[r] = "done" =>
            \A name \in rdAfterRemove[r] :
                (~FormatError(name) /\ FormatID(name) = rdLocal[r].eventType)
                    => rdLocal[r].result = NilDecoder

\* A was published, RemoveDecoder("A") returned, and a getDecoder call
\* started afterwards found nothing under A's id.
LookupAfterRemoveWitness ==
    \E r \in Readers :
        /\ rdPc[r] = "done"
        /\ "A" \in rdAfterRemove[r]
        /\ rdLocal[r].eventType = FormatID("A")
        /\ rdLocal[r].result = NilDecoder
        /\ \E p \in DOMAIN publishedAs : "A" \in DOMAIN publishedAs[p].names

\* The names and decoders of the active snapshot; none before the first
\* store.
ActiveValue == IF active = 0 THEN NewDecoderMap ELSE dmHeap[active]

\* C12: once the AddDecoder and RemoveDecoder calls that ran, concurrently
\* or not, have completed, the active snapshot holds what the same calls
\* give applied one at a time, each at a point between its start and its
\* return: no completed add or remove is lost.
WritersSerialized ==
    (\A w \in Writers : wrPc[w] = "idle") => ActiveValue = serial

\* Three calls have completed, the last of them a RemoveDecoder that took
\* the lock, and they left one name of the two that were added.
ThreeWritesCompletedWitness ==
    /\ \A w \in Writers : wrPc[w] = "idle"
    /\ regOps = 3
    /\ Len(dmHeap) = 3
    /\ Cardinality(DOMAIN serial.names) = 1
    /\ Cardinality(DOMAIN dmHeap[2].names) = 2

\* C13: getDecoder never takes or waits for the writers' mutex, its steps
\* can be taken whoever holds the mutex, and no step of a writer waits for
\* a reader: a writer waits for the mutex alone.
ReadersAndWritersNeverWait ==
    /\ mutex \in Writers \cup {"none"}
    /\ \A r \in Readers :
          /\ (rdPc[r] = "idle" /\ regReads < MaxReads) => ENABLED GetDecoderLoad(r)
          /\ rdPc[r] = "lookup" => ENABLED GetDecoderLookup(r)
          /\ rdPc[r] = "done" => ENABLED GetDecoderReturn(r)
    /\ \A w \in Writers :
          /\ (wrPc[w] \in {"addLock", "removeLock"} /\ mutex = "none")
                => ENABLED WriterLock(w)
          /\ wrPc[w] = "addBuild" => ENABLED AddDecoderBuild(w)
          /\ wrPc[w] = "removeBuild" => ENABLED RemoveDecoderBuild(w)
          /\ wrPc[w] = "store" => ENABLED WriterStore(w)
          /\ wrPc[w] = "unlock" => ENABLED WriterUnlock(w)

\* A reader has loaded the snapshot a writer is replacing and is inside its
\* lookup while that writer holds the mutex.
ReaderRunsWhileMutexHeldWitness ==
    \E r \in Readers, w \in Writers :
        /\ mutex = w
        /\ wrPc[w] = "store"
        /\ rdPc[r] = "lookup"
        /\ rdLocal[r].dm = active
        /\ active # 0

(***************************************************************************)
(* Claims about subscriptions and dispatch                                 *)
(***************************************************************************)
\* C1: dispatchSample never blocks on a subscriber's data channel: whenever
\* it is at the send to a subscription, the send can complete at once,
\* whatever the consumers do (on a full channel the event would be dropped
\* for that subscription and dispatchSample would go on).
DispatchSampleNeverBlocks ==
    dPc = "send" => SendCompletes(dCur)

ReceivedNumbers(s) == {received[s][i].n : i \in 1..Len(received[s])}

\* dispatchSample is dispatching sample n, the subscription s is in the map
\* it loaded and the filter of s lets the sample through.
DispatchingTo(s, n) ==
    /\ dPc \in {"forEach", "send"}
    /\ dSample.n = n
    /\ \E e \in MonitorEvents : s \in dSnap[e]
    /\ PassesFilter(subFilter[s], dSample)

\* C2: with a subscriber (the first) that may never read its data channel,
\* every matching event the monitor produces is still eventually delivered
\* to every other subscriber that keeps reading and keeps its subscription.
ReadersReceiveEveryMatchingEvent ==
    \A s \in SubIDs \ {1} : \A n \in 1..MaxSamples :
        DispatchingTo(s, n) ~>
            (n \in ReceivedNumbers(s) \/ ctrlClosed[s] \/ dPc = "panic")

\* C3: every event a consumer ever receives on its data channel (and every
\* event waiting in the channel) was sent by dispatchSample before the
\* subscription's teardown finished: nothing is sent to the channel after
\* the teardown has run unsubscribe and closed it.
NoEventSentAfterTeardown ==
    \A s \in SubIDs :
        /\ \A i \in 1..Len(chanBuf[s]) : ~chanBuf[s][i].late
        /\ \A i \in 1..Len(received[s]) : ~received[s][i].late

\* A subscription that had received an event was torn down, and a later
\* sample has been dispatched to the end without reaching it.
TornDownGetsNothingWitness ==
    \E s \in SubIDs :
        /\ tdPc[s] = "done"
        /\ chanClosed[s]
        /\ received[s] # << >>
        /\ chanBuf[s] = << >>
        /\ dPc = "forEach"
        /\ dTodo = {}
        /\ dSample.n > received[s][Len(received[s])].n

\* The step in which the teardown of s runs unsubscribe and its callbacks.
TeardownStep(s) == tdPc[s] = "waiting" /\ tdPc'[s] = "unsubscribed"

\* C4: when a subscription is torn down, exactly the event ids whose
\* subscriber set becomes empty are unregistered from the monitor, each
\* exactly once; an event id that another subscription of the map still
\* uses stays registered and enabled; and nothing but a teardown
\* unregisters or disables an event.
TeardownUnregistersExactlyEmptied ==
    [][/\ \A s \in SubIDs : TeardownStep(s) =>
            \A e \in MonitorEvents :
                IF eventMap[e] = {s}
                THEN /\ monitor'.unregisterCalls[e] = monitor.unregisterCalls[e] + 1
                     /\ e \notin monitor'.registered
                     /\ e \notin monitor'.enabled
                ELSE /\ monitor'.unregisterCalls[e] = monitor.unregisterCalls[e]
                     /\ (e \in monitor'.registered) = (e \in monitor.registered)
                     /\ (e \in monitor'.enabled) = (e \in monitor.enabled)
       /\ (\A s \in SubIDs : ~TeardownStep(s)) =>
            /\ monitor'.unregisterCalls = monitor.unregisterCalls
            /\ monitor.registered \subseteq monitor'.registered
            /\ monitor.enabled \subseteq monitor'.enabled]_vars

\* Two subscriptions on event 1, the first also on event 2: closing the
\* first unregistered event 2 alone and left event 1 enabled.
SharedEventStaysEnabledWitness ==
    /\ subIds[1] = {1, 2}
    /\ subIds[2] = {1}
    /\ subPc[2] = "live"
    /\ tdPc[1] = "done"
    /\ tdPc[2] = "waiting"
    /\ monitor.unregisterCalls = [e \in MonitorEvents |-> IF e = 2 THEN 1 ELSE 0]
    /\ 1 \in monitor.enabled

\* The events a subscription's consumer has received followed by those
\* still buffered in its data channel, and the samples they come from.
Delivered(s) == received[s] \o chanBuf[s]
DeliveredNumbers(s) == {Delivered(s)[i].n : i \in 1..Len(Delivered(s))}

\* C14: on the data channel of any one subscription the events appear in
\* the order in which the monitor handed their samples to dispatchSample:
\* an event of an earlier sample is never behind an event of a later one.
EventsInSampleOrder ==
    \A s \in SubIDs :
        \A i, j \in 1..Len(Delivered(s)) :
            i < j => Delivered(s)[i].n <= Delivered(s)[j].n

\* A consumer has received the event of sample 1 and then that of sample 2.
TwoSamplesInOrderWitness ==
    \E s \in SubIDs :
        /\ Len(received[s]) >= 2
        /\ received[s][1].n = 1
        /\ received[s][Len(received[s])].n = 2

\* The subscriptions of the map dispatchSample loaded.
InSnapshot(s) == \E e \in MonitorEvents : s \in dSnap[e]

\* dispatchSample returns from the sample it was dispatching.
DispatchReturnStep == dPc = "forEach" /\ dPc' = "idle"

\* C16: an event enters a subscription's data channel only from the send
\* of a sample on which its filter is true (or it has no filter), and when
\* dispatchSample returns, each subscription of the map it loaded has the
\* sample's event exactly when its filter is absent or true on the sample.
FilterDecidesDelivery ==
    [][/\ \A s \in SubIDs :
            Len(chanBuf'[s]) > Len(chanBuf[s]) =>
                /\ dPc = "send" /\ dCur = s
                /\ PassesFilter(subFilter[s], dSample)
       /\ DispatchReturnStep =>
            \A s \in SubIDs :
                (dSample.n \in DeliveredNumbers(s))
                    <=> (InSnapshot(s) /\ (subFilter[s] = "none" \/
                            FilterEvaluate(subFilter[s], dSample).true))]_vars

\* A subscription with a filter got the event of sample 1 and, at the end
\* of the dispatch of sample 2, on which the filter is false, not that of
\* sample 2, which a subscription without a filter got.
FilterFalseSkippedWitness ==
    \E s, u \in SubIDs :
        /\ subFilter[s] = "val1" /\ subFilter[u] = "none"
        /\ dPc = "forEach" /\ dTodo = {}
        /\ InSnapshot(s) /\ InSnapshot(u)
        /\ dSample = [n |-> 2, val |-> 0]
        /\ DeliveredNumbers(s) = {1}
        /\ 2 \in DeliveredNumbers(u)

\* The filter of s fails to evaluate on the sample being dispatched.
FilterFails(s) == subFilter[s] # "none" /\ FilterEvaluate(subFilter[s], dSample).err

\* C17: when the filter of a subscription fails to evaluate, the closure
\* returns for that entry alone: forEach goes on with the entries left,
\* and when dispatchSample returns, the failing subscription has not been
\* sent the sample's event while every other subscription of the map
\* whose filter lets the sample through has.
FilterErrorSkipsOnlyThatSubscription ==
    [][/\ \A en \in dTodo :
            (dPc = "forEach" /\ FilterFails(en[2]) /\ en \notin dTodo') =>
                /\ dPc' = "forEach"
                /\ dTodo' = dTodo \ {en}
                /\ chanBuf' = chanBuf
       /\ (DispatchReturnStep /\ \E b \in SubIDs : InSnapshot(b) /\ FilterFails(b)) =>
            \A s \in SubIDs :
                InSnapshot(s) =>
                    IF FilterFails(s)
                    THEN dSample.n \notin DeliveredNumbers(s)
                    ELSE PassesFilter(subFilter[s], dSample)
                            => dSample.n \in DeliveredNumbers(s)]_vars

\* The dispatch of a sample has visited every entry: the subscription
\* whose filter failed got nothing, the other one got the event.
FilterErrorOthersProceedWitness ==
    \E b, s \in SubIDs :
        /\ dPc = "forEach" /\ dTodo = {}
        /\ InSnapshot(b) /\ InSnapshot(s)
        /\ FilterFails(b)
        /\ dSample.n \notin DeliveredNumbers(b)
        /\ dSample.n \in DeliveredNumbers(s)

\* The step in which a value sent on the control channel of s is received.
CtrlValueStep == ctrlValues' = ctrlValues + 1

\* C15: closing the control channel of a subscription is the only thing
\* that tears it down, and it always does: a value sent on the control
\* channel leaves the subscription in the map and its data channel open,
\* the teardown runs unsubscribe and close(data) only once the control
\* channel is closed and each of them once, and once the channel is closed
\* the teardown eventually has run unsubscribe and closed the data channel.
ClosingCtrlAlwaysTearsDown ==
    /\ [][/\ CtrlValueStep =>
                /\ eventMap' = eventMap /\ monitor' = monitor
                /\ tdPc' = tdPc /\ chanClosed' = chanClosed
          /\ \A s \in SubIDs :
                /\ tdPc'[s] # tdPc[s] =>
                      \/ tdPc[s] = "none" /\ tdPc'[s] = "waiting"
                      \/ tdPc[s] = "waiting" /\ tdPc'[s] = "unsubscribed" /\ ctrlClosed[s]
                      \/ tdPc[s] = "unsubscribed" /\ tdPc'[s] = "done"
                /\ chanClosed'[s] # chanClosed[s] =>
                      tdPc[s] = "unsubscribed" /\ tdPc'[s] = "done"]_vars
    /\ \A s \in SubIDs : ctrlClosed[s] ~> (tdPc[s] = "done" /\ chanClosed[s])

\* NewSubscription has returned a stream and a nil error for s.
ReturnedStream(s) == subPc[s] \in {"live", "nostream"}

\* C20: when the schema of an event of a subscription cannot be loaded,
\* NewSubscription returns the error and nothing of the subscription
\* survives: it returns no stream, the subscription has no entry in the
\* subscription map, none of its events stays registered or enabled for
\* it, and it is not counted in Metrics.Subscriptions.
FailedSetupLeavesNothing ==
    /\ \A s \in SubIDs :
          (subFailed[s] # {} /\ subPc[s] \notin {"none", "registered", "enabling"}) =>
              /\ CreatePerfEventStreamError # "nil"
              /\ ~ReturnedStream(s)
              /\ \A e \in MonitorEvents : s \notin eventMap[e]
    /\ metricsSubscriptions =
          Cardinality({s \in SubIDs : ReturnedStream(s) /\ subFailed[s] = {}})

(***************************************************************************)
(* Claims about sample decoding                                            *)
(***************************************************************************)
\* The sample was laid out whole from a format the decoder supports and
\* the registry holds its decoder.
WellFormedSample ==
    /\ decIn.known
    /\ decIn.case \notin RejectedCases
    /\ RawLen(decIn.raw) = decIn.case.size

\* A field whose bytes, or whose inline region, reach beyond the end of the
\* raw data.
ReachesBeyondEnd(item, raw) ==
    LET f == item.field
    IN  IF f.dataLocSize > 0
        THEN \/ f.Offset + f.dataLocSize > RawLen(raw)
             \/ item.region + Len(Region(item)) > RawLen(raw)
        ELSE f.Offset + f.dataTypeSize * (IF f.arraySize = 0 THEN 1 ELSE f.arraySize)
                > RawLen(raw)

\* C18: when a field, or the region of a dynamic field, reaches beyond the
\* end of the sample's raw data, DecodeSample returns an error and no field
\* map, the decoder function is not called, and the monitor goes on with
\* the next sample.
OutOfRangeFieldIsDecodeError ==
    (/\ decPc \in {"done", "panic"}
     /\ decIn.known
     /\ decIn.case \notin RejectedCases
     /\ \E it \in decIn.case.items : ReachesBeyondEnd(it, decIn.raw))
        => /\ decPc = "done"
           /\ decOut.kind = "error"
           /\ decOut.data = EmptyMap
           /\ ~decOut.fnCalled

\* A byte string less one trailing NUL, when it ends in NUL.
StripOneNul(b) ==
    IF Len(b) > 0 /\ b[Len(b)] = 0 THEN SubSeq(b, 1, Len(b) - 1) ELSE b

\* C19: for a payload built by laying out values at the offsets of the
\* format (scalars, fixed arrays, dynamic arrays and strings behind a 4- or
\* 8-byte __data_loc word), decodeRawData returns under each field name the
\* value laid out; of a dynamic string's region exactly one trailing NUL is
\* dropped when it ends in NUL, and nothing otherwise.
DecodeReturnsLaidOutValues ==
    (decPc \in {"done", "panic"} /\ WellFormedSample) =>
        /\ decOut.kind = "ok"
        /\ DOMAIN decOut.data = {it.field.FieldName : it \in decIn.case.items}
        /\ \A it \in decIn.case.items :
              IF it.field.dataType = "string"
              THEN /\ decOut.data[it.field.FieldName]
                        = StringValue(StripOneNul(Region(it)))
                   /\ (it.value.v = << >> \/ it.value.v[Len(it.value.v)] # 0)
                        => decOut.data[it.field.FieldName] = it.value
              ELSE decOut.data[it.field.FieldName] = it.value

\* "cat" followed by a NUL, behind an 8-byte __data_loc word, was decoded
\* to "cat", and the scalar next to it to 7.
StringRoundTripWitness ==
    /\ decPc = "done"
    /\ WellFormedSample
    /\ \E it \in decIn.case.items :
          /\ it.field.dataLocSize = 8
          /\ it.nul
          /\ it.value = StringValue(<<99, 97, 116>>)
    /\ decOut.data = [name \in {"pid", "comm"} |->
                        IF name = "pid" THEN IntValue(7)
                        ELSE StringValue(<<99, 97, 116>>)]

\* C21: DecodeSample on a sample whose event id, the low 16 bits of the
\* little-endian u64 at raw[0..8), has no decoder in the snapshot returns
\* the empty result without error and calls no decoder function; with a
\* decoder, the function is called, once, exactly when decodeRawData
\* succeeded, and the result is that field map and the function's result.
DecodeSampleLooksUpLow16 ==
    decPc \in {"done", "panic"} =>
        LET outcomes == DecodeRawDataOutcomes(FieldsOf(decIn.case), decIn.raw)
        IN  IF ~decIn.known
            THEN decOut = [kind |-> "ok", data |-> EmptyMap,
                           decodedSample |-> "nil", fnCalled |-> FALSE]
            ELSE /\ decOut.fnCalled <=> (\A r \in outcomes : r.kind = "ok")
                 /\ decOut.fnCalled =>
                       /\ decOut.kind = "ok"
                       /\ Ok(decOut.data) \in outcomes
                       /\ decOut.decodedSample = DecoderFn(decOut.data)
                 /\ ~decOut.fnCalled =>
                       /\ decOut.kind \in {"error", "panic"}
                       /\ decOut.data = EmptyMap
                       /\ decOut.decodedSample = "nil"

\* A sample with a nonzero reserved header byte was decoded by the decoder
\* registered under the low 16 bits of its header.
ReservedBitsIgnoredWitness ==
    /\ decPc = "done"
    /\ decIn.known
    /\ decIn.raw.bytes[3] = 1
    /\ decOut.fnCalled
    /\ decOut.kind = "ok"

\* The entries dispatchSample still has to visit or is sending to, and the
\* entries of the published map.
ObservableEntries ==
    Entries(eventMap) \cup dTodo \cup
        (IF dPc = "send" THEN {en \in MonitorEvents \X SubIDs : en[2] = dCur}
         ELSE {})

\* A step in which createPerfEventStream of subscription s enables event e.
EnableStep(s, e) ==
    /\ subPc[s] = "enabling"
    /\ e \in toEnable[s]
    /\ toEnable'[s] = toEnable[s] \ {e}

\* C22: a dispatcher that observes a subscription entry sees it with its
\* data channel set, and an event id of a new subscription is enabled on
\* the monitor only after the subscription has been published in the map.
EntriesPublishedComplete ==
    /\ [](\A en \in ObservableEntries : dataSet[en[2]])
    /\ [][\A s \in SubIDs, e \in MonitorEvents :
             EnableStep(s, e) => s \in eventMap[e] /\ dataSet[s]]_vars

\* dispatchSample is sending to a subscription whose createPerfEventStream
\* has enabled an event and has not returned yet.
DispatchDuringSetupWitness ==
    /\ dPc = "send"
    /\ subPc[dCur] = "enabling"
    /\ dataSet[dCur]
    /\ toEnable[dCur] # subIds[dCur]

\* C23: dispatchSample never sends, nor waits to send, on a data channel
\* that a teardown has closed: the send to a subscription of the snapshot
\* happens before close(data) or not at all.
NoSendOnClosedChannel ==
    /\ ~(dPc = "send" /\ chanClosed[dCur])
    /\ dPc # "panic"

\* A step in which the teardown of subscription s runs unsubscribe and the
\* callback is called for an event id left without subscription.
UnregisterStep(s) ==
    /\ tdPc[s] = "waiting"
    /\ tdPc'[s] # "waiting"
    /\ EmptiedBy(eventMap, s) # {}

\* C24: whenever a teardown calls UnregisterEvent the sensor's monitor is
\* still set: no teardown runs its unregister callback after Stop has
\* closed the monitor and set s.monitor to nil.
UnregisterOnlyWhileMonitorSet ==
    [][\A s \in SubIDs : UnregisterStep(s) => monitorPtr = "set"]_vars

====
